---- MODULE Spec2Model ----
(***************************************************************************)
(* Model of src/div.rs of option-operations: the division trait family     *)
(* (OptionDiv, OptionDivAssign, OptionCheckedDiv, OptionOverflowingDiv,    *)
(* OptionWrappingDiv) and its blanket implementations over every call      *)
(* shape, instantiated on a fixed-width integer payload.                   *)
(*                                                                         *)
(* A caller owns a left-hand binding `lhs` (a bare T or an Option<T>) and  *)
(* a right-hand Option binding `opt_rhs`; every action is one call of one impl.*)
(***************************************************************************)
EXTENDS Integers, Sequences, FiniteSets, TLC

\* Width in bits of the modelled integer payload (i64 / u64 in the tests).
Bits == 2

VARIABLES
    signed,   \* TRUE: the payload is a two's-complement iN, FALSE: a uN
    lhs,      \* the caller's left-hand binding: Val(x), Some(x) or None
    opt_rhs,  \* the caller's right-hand Option binding (borrowed by & forms)
    call,     \* the last call: trait method, shapes and the operands passed
    ret,      \* what the last call returned, or Panic when it unwound
    evals     \* how many times the last call entered the base operation

vars == <<signed, lhs, opt_rhs, call, ret, evals>>

----------------------------------------------------------------------------
\* Values

None == <<"None">>
Some(x) == <<"Some", x>>
Val(x) == <<"Val", x>>
Ref(x) == <<"&", x>>
Deref(r) == r[2]
Ok(x) == <<"Ok", x>>
Err(e) == <<"Err", e>>
Unit == <<"()">>
Panic == <<"panic">>

is_some(o) == o[1] = "Some"
is_none(o) == o[1] = "None"
unwrap(o) == o[2]

MIN == IF signed THEN -(2 ^ (Bits - 1)) ELSE 0
MAX == IF signed THEN 2 ^ (Bits - 1) - 1 ELSE 2 ^ Bits - 1
T == MIN .. MAX
OptionT == {None} \cup {Some(x) : x \in T}

Abs(x) == IF x < 0 THEN -x ELSE x

\* The machine quotient: rounds toward zero (rhs # 0).
TruncDiv(a, b) ==
    IF (a < 0) = (b < 0) THEN Abs(a) \div Abs(b) ELSE -(Abs(a) \div Abs(b))

\* Two's-complement reduction of an exact integer to the payload type.
Wrap(x) ==
    IF signed
    THEN ((x + 2 ^ (Bits - 1)) % (2 ^ Bits)) - 2 ^ (Bits - 1)
    ELSE x % (2 ^ Bits)

\* The outcome of evaluating an expression: a value or an unwinding panic,
\* with the number of base operations it entered.
Returns(v, n) == [panic |-> FALSE, val |-> v, evals |-> n]
Unwinds(n) == [panic |-> TRUE, val |-> Panic, evals |-> n]
\* The outcome of a body that writes through &mut self.
Stores(s, n) == [panic |-> FALSE, self |-> s, evals |-> n]
Aborts(s, n) == [panic |-> TRUE, self |-> s, evals |-> n]

----------------------------------------------------------------------------
\* Option combinators used by the impls; a closure is a function of the
\* payload it is applied to.

RefT == {Ref(x) : x \in T}

map(o, f) ==
    IF is_some(o)
    THEN LET r == f[unwrap(o)]
         IN  IF r.panic THEN r ELSE Returns(Some(r.val), r.evals)
    ELSE Returns(None, 0)

and_then(o, f) ==
    IF is_some(o) THEN f[unwrap(o)] ELSE Returns(None, 0)

zip(a, b) ==
    IF is_some(a) /\ is_some(b) THEN Some(<<unwrap(a), unwrap(b)>>) ELSE None

\* &Option<R> -> Option<&R>
as_ref(r) ==
    IF is_some(Deref(r)) THEN Some(Ref(unwrap(Deref(r)))) ELSE None

----------------------------------------------------------------------------
\* Base operations of the payload type

\* Div::div on the integer payload: panics on a zero divisor and on overflow.
T_div(self, rhs) ==
    IF rhs = 0 THEN Unwinds(1)
    ELSE IF signed /\ self = MIN /\ rhs = -1 THEN Unwinds(1)
    ELSE Returns(TruncDiv(self, rhs), 1)

\* DivAssign::div_assign on the integer payload.
T_div_assign(self, rhs) ==
    IF rhs = 0 THEN Aborts(self, 1)
    ELSE IF signed /\ self = MIN /\ rhs = -1 THEN Aborts(self, 1)
    ELSE Stores(TruncDiv(self, rhs), 1)

\* {integer}::checked_div: None on a zero divisor or an unrepresentable quotient.
checked_div(self, rhs) ==
    IF rhs = 0 \/ (signed /\ self = MIN /\ rhs = -1)
    THEN None
    ELSE Some(TruncDiv(self, rhs))

\* Option::ok_or
ok_or(o, err) == IF is_some(o) THEN Ok(unwrap(o)) ELSE Err(err)

\* Result::map(Some)
map_Some(res) == IF res[1] = "Ok" THEN Ok(Some(res[2])) ELSE res

\* {integer}::overflowing_div: panics on a zero divisor; on overflow self is
\* returned with the flag set.
overflowing_div(self, rhs) ==
    IF rhs = 0 THEN Unwinds(1)
    ELSE IF signed /\ self = MIN /\ rhs = -1 THEN Returns(<<self, TRUE>>, 1)
    ELSE Returns(<<TruncDiv(self, rhs), FALSE>>, 1)

\* {integer}::wrapping_div: panics on a zero divisor; the exact quotient is
\* reduced modulo 2^Bits.
wrapping_div(self, rhs) ==
    IF rhs = 0 THEN Unwinds(1)
    ELSE Returns(Wrap(TruncDiv(self, rhs)), 1)


----------------------------------------------------------------------------
\* OptionDiv

\* Faulty variant: the quotient is taken with wrapping_div.
opt_div_T_Rhs_wrapping(self, r) ==
    LET e == wrapping_div(self, r)
    IN  IF e.panic THEN e ELSE Returns(Some(e.val), e.evals)

opt_div_T_Rhs(self, r) ==
    LET e == T_div(self, r)
    IN  IF e.panic THEN e ELSE Returns(Some(e.val), e.evals)

opt_div_T_Option(self, r) ==
    LET f == [inner_rhs \in T |-> T_div(self, inner_rhs)]
    IN  map(r, f)

\* Faulty variant: the operands of the division are exchanged.
opt_div_T_RefOption_swapped(self, r) ==
    LET f == [inner_rhs \in RefT |-> T_div(Deref(inner_rhs), self)]
    IN  map(as_ref(r), f)

opt_div_T_RefOption(self, r) ==
    LET f == [inner_rhs \in RefT |-> T_div(self, Deref(inner_rhs))]
    IN  map(as_ref(r), f)

opt_div_Option_Rhs(self, r) ==
    LET f == [inner_self \in T |-> T_div(inner_self, r)]
    IN  map(self, f)

\* Faulty variant: an absent self is replaced by the default value 0.
opt_div_Option_Option_unwrap_or_default(self, r) ==
    LET f == [inner_rhs \in T |-> T_div(IF is_some(self) THEN unwrap(self) ELSE 0, inner_rhs)]
    IN  map(r, f)

opt_div_Option_Option(self, r) ==
    LET f == [p \in T \X T |-> T_div(p[1], p[2])]
    IN  map(zip(self, r), f)

opt_div_Option_RefOption(self, r) ==
    LET f == [p \in T \X RefT |-> T_div(p[1], Deref(p[2]))]
    IN  map(zip(self, as_ref(r)), f)

----------------------------------------------------------------------------
\* OptionDivAssign

opt_div_assign_T_Rhs(self, r) ==
    T_div_assign(self, r)

opt_div_assign_T_Option(self, r) ==
    IF is_some(r) THEN T_div_assign(self, unwrap(r)) ELSE Stores(self, 0)

\* Faulty variant: an absent rhs is replaced by the default value 0.
opt_div_assign_T_RefOption_unwrap_or_default(self, r) ==
    LET o == as_ref(r)
    IN  T_div_assign(self, IF is_some(o) THEN Deref(unwrap(o)) ELSE 0)

opt_div_assign_T_RefOption(self, r) ==
    LET o == as_ref(r)
    IN  IF is_some(o) THEN T_div_assign(self, Deref(unwrap(o)))
        ELSE Stores(self, 0)

\* Faulty variant: the payload is copied out and the copy is divided.
opt_div_assign_Option_Rhs_on_copy(self, r) ==
    IF is_some(self)
    THEN LET e == T_div_assign(unwrap(self), r)
         IN  [e EXCEPT !.self = self]
    ELSE Stores(self, 0)

opt_div_assign_Option_Rhs(self, r) ==
    IF is_some(self)
    THEN LET e == T_div_assign(unwrap(self), r)
         IN  [e EXCEPT !.self = Some(e.self)]
    ELSE Stores(self, 0)

\* Faulty variant: assigns the result of opt_div, so absence erases self.
opt_div_assign_Option_Option_via_opt_div(self, r) ==
    LET z == zip(self, r)
    IN  IF is_some(z)
        THEN LET e == T_div_assign(unwrap(z)[1], unwrap(z)[2])
             IN  [e EXCEPT !.self = Some(e.self)]
        ELSE Stores(None, 0)

opt_div_assign_Option_Option(self, r) ==
    LET z == zip(self, r)
    IN  IF is_some(z)
        THEN LET e == T_div_assign(unwrap(z)[1], unwrap(z)[2])
             IN  [e EXCEPT !.self = Some(e.self)]
        ELSE Stores(self, 0)

\* Faulty variant: assigns the result of opt_div, so absence erases self.
opt_div_assign_Option_RefOption_via_opt_div(self, r) ==
    LET z == zip(self, as_ref(r))
    IN  IF is_some(z)
        THEN LET e == T_div_assign(unwrap(z)[1], Deref(unwrap(z)[2]))
             IN  [e EXCEPT !.self = Some(e.self)]
        ELSE Stores(None, 0)

opt_div_assign_Option_RefOption(self, r) ==
    LET z == zip(self, as_ref(r))
    IN  IF is_some(z)
        THEN LET e == T_div_assign(unwrap(z)[1], Deref(unwrap(z)[2]))
             IN  [e EXCEPT !.self = Some(e.self)]
        ELSE Stores(self, 0)

----------------------------------------------------------------------------
\* OptionCheckedDiv

\* Faulty variant: the zero test is missing.
opt_checked_div_T_Rhs_no_zero_test(self, r) ==
    Returns(map_Some(ok_or(checked_div(self, r), "Overflow")), 1)

\* Faulty variant: the quotient is taken with wrapping_div.
opt_checked_div_T_Rhs_wrapping(self, r) ==
    IF r = 0
    THEN Returns(Err("DivisionByZero"), 1)
    ELSE Returns(Ok(Some(wrapping_div(self, r).val)), 1)

\* Faulty variant: the quotient is taken with the panicking operator.
opt_checked_div_T_Rhs_plain_div(self, r) ==
    LET e == T_div(self, r)
    IN  IF e.panic THEN e ELSE Returns(Ok(Some(e.val)), 1)

opt_checked_div_T_Rhs(self, r) ==
    IF r = 0
    THEN Returns(Err("DivisionByZero"), 1)
    ELSE Returns(map_Some(ok_or(checked_div(self, r), "Overflow")), 1)

\* Duration::checked_div by a u32: None only on a zero divisor.  A Duration
\* is modelled by its count of time units, an unsigned payload.
Duration_checked_div(self, rhs) ==
    IF rhs # 0 THEN Some(self \div rhs) ELSE None

opt_checked_div_Duration_u32(self, r) ==
    IF r = 0
    THEN Returns(Err("DivisionByZero"), 1)
    ELSE Returns(map_Some(ok_or(Duration_checked_div(self, r), "Overflow")), 1)

opt_checked_div_T_Option(self, r) ==
    IF is_some(r)
    THEN opt_checked_div_T_Rhs(self, unwrap(r))
    ELSE Returns(Ok(None), 0)

opt_checked_div_T_RefOption(self, r) ==
    LET o == as_ref(r)
    IN  IF is_some(o)
        THEN opt_checked_div_T_Rhs(self, Deref(unwrap(o)))
        ELSE Returns(Ok(None), 0)

opt_checked_div_Option_Rhs(self, r) ==
    IF is_some(self)
    THEN opt_checked_div_T_Rhs(unwrap(self), r)
    ELSE Returns(Ok(None), 0)

\* Faulty variant: only rhs is tested; an absent self defaults to 0.
opt_checked_div_Option_Option_unwrap_or_default(self, r) ==
    IF is_some(r)
    THEN opt_checked_div_T_Rhs(IF is_some(self) THEN unwrap(self) ELSE 0,
                               unwrap(r))
    ELSE Returns(Ok(None), 0)

opt_checked_div_Option_Option(self, r) ==
    IF is_some(self) /\ is_some(r)
    THEN opt_checked_div_T_Rhs(unwrap(self), unwrap(r))
    ELSE Returns(Ok(None), 0)

opt_checked_div_Option_RefOption(self, r) ==
    LET o == as_ref(r)
    IN  IF is_some(self) /\ is_some(o)
        THEN opt_checked_div_T_Rhs(unwrap(self), Deref(unwrap(o)))
        ELSE Returns(Ok(None), 0)

----------------------------------------------------------------------------
\* OptionOverflowingDiv

\* Faulty variant: the overflow flag is dropped.
opt_overflowing_div_T_Rhs_flag_dropped(self, r) ==
    LET e == overflowing_div(self, r)
    IN  IF e.panic THEN e ELSE Returns(Some(<<e.val[1], FALSE>>), e.evals)

opt_overflowing_div_T_Rhs(self, r) ==
    LET e == overflowing_div(self, r)
    IN  IF e.panic THEN e ELSE Returns(Some(e.val), e.evals)

opt_overflowing_div_T_Option(self, r) ==
    LET f == [inner_rhs \in T |-> opt_overflowing_div_T_Rhs(self, inner_rhs)]
    IN  and_then(r, f)

opt_overflowing_div_T_RefOption(self, r) ==
    LET f == [inner_rhs \in RefT |-> opt_overflowing_div_T_Rhs(self, Deref(inner_rhs))]
    IN  and_then(as_ref(r), f)

opt_overflowing_div_Option_Rhs(self, r) ==
    LET f == [inner_self \in T |-> opt_overflowing_div_T_Rhs(inner_self, r)]
    IN  and_then(self, f)

opt_overflowing_div_Option_Option(self, r) ==
    LET f == [p \in T \X T |-> opt_overflowing_div_T_Rhs(p[1], p[2])]
    IN  and_then(zip(self, r), f)

opt_overflowing_div_Option_RefOption(self, r) ==
    LET f == [p \in T \X RefT |-> opt_overflowing_div_T_Rhs(p[1], Deref(p[2]))]
    IN  and_then(zip(self, as_ref(r)), f)

----------------------------------------------------------------------------
\* OptionWrappingDiv

\* Faulty variant: a zero divisor is answered with None.
opt_wrapping_div_T_Rhs_zero_guard(self, r) ==
    IF r = 0
    THEN Returns(None, 0)
    ELSE LET e == wrapping_div(self, r)
         IN  Returns(Some(e.val), e.evals)

\* Faulty variant: an unrepresentable quotient saturates at MAX.
opt_wrapping_div_T_Rhs_saturating(self, r) ==
    LET e == wrapping_div(self, r)
    IN  IF e.panic THEN e
        ELSE IF signed /\ self = MIN /\ r = -1 THEN Returns(Some(MAX), e.evals)
        ELSE Returns(Some(e.val), e.evals)

opt_wrapping_div_T_Rhs(self, r) ==
    LET e == wrapping_div(self, r)
    IN  IF e.panic THEN e ELSE Returns(Some(e.val), e.evals)

opt_wrapping_div_T_Option(self, r) ==
    LET f == [inner_rhs \in T |-> opt_wrapping_div_T_Rhs(self, inner_rhs)]
    IN  and_then(r, f)

opt_wrapping_div_T_RefOption(self, r) ==
    LET f == [inner_rhs \in RefT |-> opt_wrapping_div_T_Rhs(self, Deref(inner_rhs))]
    IN  and_then(as_ref(r), f)

opt_wrapping_div_Option_Rhs(self, r) ==
    LET f == [inner_self \in T |-> opt_wrapping_div_T_Rhs(inner_self, r)]
    IN  and_then(self, f)

opt_wrapping_div_Option_Option(self, r) ==
    LET f == [p \in T \X T |-> opt_wrapping_div_T_Rhs(p[1], p[2])]
    IN  and_then(zip(self, r), f)

opt_wrapping_div_Option_RefOption(self, r) ==
    LET f == [p \in T \X RefT |-> opt_wrapping_div_T_Rhs(p[1], Deref(p[2]))]
    IN  and_then(zip(self, as_ref(r)), f)

----------------------------------------------------------------------------
\* The caller

NoCall ==
    [op |-> "none", on |-> "int", lhs |-> "T", rhs |-> "Rhs",
     self |-> None, arg |-> None]

Init ==
    /\ signed \in BOOLEAN
    /\ lhs \in {Val(x) : x \in T} \cup OptionT
    /\ opt_rhs \in OptionT
    /\ call = NoCall
    /\ ret = Unit
    /\ evals = 0

Running == ret # Panic

\* A call of a method that takes self by value and returns.
InvokeOn(ty, op, ls, rs, arg, e) ==
    /\ Running
    /\ call' = [op |-> op, on |-> ty, lhs |-> ls, rhs |-> rs,
                self |-> lhs, arg |-> arg]
    /\ ret' = e.val
    /\ evals' = e.evals
    /\ UNCHANGED <<signed, lhs, opt_rhs>>

Invoke(op, ls, rs, arg, e) == InvokeOn("int", op, ls, rs, arg, e)

\* A call of opt_div_assign, which writes through &mut self.
InvokeAssign(ls, rs, arg, e) ==
    /\ Running
    /\ call' = [op |-> "opt_div_assign", on |-> "int", lhs |-> ls,
                rhs |-> rs, self |-> lhs, arg |-> arg]
    /\ lhs' = (IF ls = "T" THEN Val(e.self) ELSE e.self)
    /\ ret' = (IF e.panic THEN Panic ELSE Unit)
    /\ evals' = e.evals
    /\ UNCHANGED <<signed, opt_rhs>>

IsT == lhs[1] = "Val"
IsOption == lhs[1] # "Val"

Call_opt_div_T_Rhs ==
    /\ IsT
    /\ \E b \in T : Invoke("opt_div", "T", "Rhs", Val(b), opt_div_T_Rhs(lhs[2], b))

Call_opt_div_T_Option ==
    /\ IsT
    /\ \E o \in OptionT :
          Invoke("opt_div", "T", "Option", o, opt_div_T_Option(lhs[2], o))

Call_opt_div_T_RefOption ==
    /\ IsT
    /\ Invoke("opt_div", "T", "RefOption", opt_rhs, opt_div_T_RefOption(lhs[2], Ref(opt_rhs)))

Call_opt_div_Option_Rhs ==
    /\ IsOption
    /\ \E b \in T :
          Invoke("opt_div", "Option", "Rhs", Val(b), opt_div_Option_Rhs(lhs, b))

Call_opt_div_Option_Option ==
    /\ IsOption
    /\ \E o \in OptionT :
          Invoke("opt_div", "Option", "Option", o, opt_div_Option_Option(lhs, o))

Call_opt_div_Option_RefOption ==
    /\ IsOption
    /\ Invoke("opt_div", "Option", "RefOption", opt_rhs,
              opt_div_Option_RefOption(lhs, Ref(opt_rhs)))

Call_opt_div_assign_T_Rhs ==
    /\ IsT
    /\ \E b \in T :
          InvokeAssign("T", "Rhs", Val(b), opt_div_assign_T_Rhs(lhs[2], b))

Call_opt_div_assign_T_Option ==
    /\ IsT
    /\ \E o \in OptionT :
          InvokeAssign("T", "Option", o, opt_div_assign_T_Option(lhs[2], o))

Call_opt_div_assign_T_RefOption ==
    /\ IsT
    /\ InvokeAssign("T", "RefOption", opt_rhs,
                    opt_div_assign_T_RefOption(lhs[2], Ref(opt_rhs)))

Call_opt_div_assign_Option_Rhs ==
    /\ IsOption
    /\ \E b \in T :
          InvokeAssign("Option", "Rhs", Val(b), opt_div_assign_Option_Rhs(lhs, b))

Call_opt_div_assign_Option_Option ==
    /\ IsOption
    /\ \E o \in OptionT :
          InvokeAssign("Option", "Option", o, opt_div_assign_Option_Option(lhs, o))

Call_opt_div_assign_Option_RefOption ==
    /\ IsOption
    /\ InvokeAssign("Option", "RefOption", opt_rhs,
                    opt_div_assign_Option_RefOption(lhs, Ref(opt_rhs)))

Call_opt_checked_div_T_Rhs ==
    /\ IsT
    /\ \E b \in T :
          Invoke("opt_checked_div", "T", "Rhs", Val(b),
                 opt_checked_div_T_Rhs(lhs[2], b))

Call_opt_checked_div_Duration_u32 ==
    /\ IsT
    /\ ~signed
    /\ \E b \in T :
          InvokeOn("Duration", "opt_checked_div", "T", "Rhs", Val(b),
                   opt_checked_div_Duration_u32(lhs[2], b))

Call_opt_checked_div_T_Option ==
    /\ IsT
    /\ \E o \in OptionT :
          Invoke("opt_checked_div", "T", "Option", o,
                 opt_checked_div_T_Option(lhs[2], o))

Call_opt_checked_div_T_RefOption ==
    /\ IsT
    /\ Invoke("opt_checked_div", "T", "RefOption", opt_rhs,
              opt_checked_div_T_RefOption(lhs[2], Ref(opt_rhs)))

Call_opt_checked_div_Option_Rhs ==
    /\ IsOption
    /\ \E b \in T :
          Invoke("opt_checked_div", "Option", "Rhs", Val(b),
                 opt_checked_div_Option_Rhs(lhs, b))

Call_opt_checked_div_Option_Option ==
    /\ IsOption
    /\ \E o \in OptionT :
          Invoke("opt_checked_div", "Option", "Option", o,
                 opt_checked_div_Option_Option(lhs, o))

Call_opt_checked_div_Option_RefOption ==
    /\ IsOption
    /\ Invoke("opt_checked_div", "Option", "RefOption", opt_rhs,
              opt_checked_div_Option_RefOption(lhs, Ref(opt_rhs)))

Call_opt_overflowing_div_T_Rhs ==
    /\ IsT
    /\ \E b \in T :
          Invoke("opt_overflowing_div", "T", "Rhs", Val(b),
                 opt_overflowing_div_T_Rhs(lhs[2], b))

Call_opt_overflowing_div_T_Option ==
    /\ IsT
    /\ \E o \in OptionT :
          Invoke("opt_overflowing_div", "T", "Option", o,
                 opt_overflowing_div_T_Option(lhs[2], o))

Call_opt_overflowing_div_T_RefOption ==
    /\ IsT
    /\ Invoke("opt_overflowing_div", "T", "RefOption", opt_rhs,
              opt_overflowing_div_T_RefOption(lhs[2], Ref(opt_rhs)))

Call_opt_overflowing_div_Option_Rhs ==
    /\ IsOption
    /\ \E b \in T :
          Invoke("opt_overflowing_div", "Option", "Rhs", Val(b),
                 opt_overflowing_div_Option_Rhs(lhs, b))

Call_opt_overflowing_div_Option_Option ==
    /\ IsOption
    /\ \E o \in OptionT :
          Invoke("opt_overflowing_div", "Option", "Option", o,
                 opt_overflowing_div_Option_Option(lhs, o))

Call_opt_overflowing_div_Option_RefOption ==
    /\ IsOption
    /\ Invoke("opt_overflowing_div", "Option", "RefOption", opt_rhs,
              opt_overflowing_div_Option_RefOption(lhs, Ref(opt_rhs)))

Call_opt_wrapping_div_T_Rhs ==
    /\ IsT
    /\ \E b \in T :
          Invoke("opt_wrapping_div", "T", "Rhs", Val(b),
                 opt_wrapping_div_T_Rhs(lhs[2], b))

Call_opt_wrapping_div_T_Option ==
    /\ IsT
    /\ \E o \in OptionT :
          Invoke("opt_wrapping_div", "T", "Option", o,
                 opt_wrapping_div_T_Option(lhs[2], o))

Call_opt_wrapping_div_T_RefOption ==
    /\ IsT
    /\ Invoke("opt_wrapping_div", "T", "RefOption", opt_rhs,
              opt_wrapping_div_T_RefOption(lhs[2], Ref(opt_rhs)))

Call_opt_wrapping_div_Option_Rhs ==
    /\ IsOption
    /\ \E b \in T :
          Invoke("opt_wrapping_div", "Option", "Rhs", Val(b),
                 opt_wrapping_div_Option_Rhs(lhs, b))

Call_opt_wrapping_div_Option_Option ==
    /\ IsOption
    /\ \E o \in OptionT :
          Invoke("opt_wrapping_div", "Option", "Option", o,
                 opt_wrapping_div_Option_Option(lhs, o))

Call_opt_wrapping_div_Option_RefOption ==
    /\ IsOption
    /\ Invoke("opt_wrapping_div", "Option", "RefOption", opt_rhs,
              opt_wrapping_div_Option_RefOption(lhs, Ref(opt_rhs)))

Next ==
    \/ Call_opt_div_T_Rhs
    \/ Call_opt_div_T_Option
    \/ Call_opt_div_T_RefOption
    \/ Call_opt_div_Option_Rhs
    \/ Call_opt_div_Option_Option
    \/ Call_opt_div_Option_RefOption
    \/ Call_opt_div_assign_T_Rhs
    \/ Call_opt_div_assign_T_Option
    \/ Call_opt_div_assign_T_RefOption
    \/ Call_opt_div_assign_Option_Rhs
    \/ Call_opt_div_assign_Option_Option
    \/ Call_opt_div_assign_Option_RefOption
    \/ Call_opt_checked_div_T_Rhs
    \/ Call_opt_checked_div_Duration_u32
    \/ Call_opt_checked_div_T_Option
    \/ Call_opt_checked_div_T_RefOption
    \/ Call_opt_checked_div_Option_Rhs
    \/ Call_opt_checked_div_Option_Option
    \/ Call_opt_checked_div_Option_RefOption
    \/ Call_opt_overflowing_div_T_Rhs
    \/ Call_opt_overflowing_div_T_Option
    \/ Call_opt_overflowing_div_T_RefOption
    \/ Call_opt_overflowing_div_Option_Rhs
    \/ Call_opt_overflowing_div_Option_Option
    \/ Call_opt_overflowing_div_Option_RefOption
    \/ Call_opt_wrapping_div_T_Rhs
    \/ Call_opt_wrapping_div_T_Option
    \/ Call_opt_wrapping_div_T_RefOption
    \/ Call_opt_wrapping_div_Option_Rhs
    \/ Call_opt_wrapping_div_Option_Option
    \/ Call_opt_wrapping_div_Option_RefOption

Spec == Init /\ [][Next]_vars

----------------------------------------------------------------------------
\* Vocabulary of the properties

Called(op) == call.op = op
SelfAbsent == call.self = None
ArgAbsent == call.arg = None
BothPresent == call.op # "none" /\ ~SelfAbsent /\ ~ArgAbsent
\* The concrete operands of the last call (when present).
A == call.self[2]
B == call.arg[2]

\* q is the quotient of a by b rounded toward zero: the remainder is smaller
\* than the divisor and carries the sign of the dividend.
IsTruncQuot(q, a, b) ==
    LET r == a - q * b
    IN  /\ Abs(r) < Abs(b)
        /\ r = 0 \/ ((r > 0) = (a > 0))

\* The mathematically exact truncated quotient, in the unbounded integers.
ExactQuot(a, b) ==
    CHOOSE q \in (-(2 ^ Bits)) .. (2 ^ Bits) : IsTruncQuot(q, a, b)

Representable(a, b) == ExactQuot(a, b) \in T

\* C1: for opt_div, opt_overflowing_div and opt_wrapping_div, in every call
\* shape, an absent operand makes the result None, nothing panics and the
\* underlying division is never evaluated.
C1_AbsenceDominance ==
    (/\ call.op \in {"opt_div", "opt_overflowing_div", "opt_wrapping_div"}
     /\ SelfAbsent \/ ArgAbsent)
    => (ret = None /\ evals = 0)

C1_Witness ==
    /\ Called("opt_div")
    /\ call.self = None
    /\ call.arg = Some(0)
    /\ ret = None

\* C2: opt_checked_div with an absent operand is Ok(None) in every call
\* shape, whatever the other operand is (a zero divisor, MIN, ...).
C2_AbsenceDominatesFailure ==
    (Called("opt_checked_div") /\ (SelfAbsent \/ ArgAbsent))
    => ret = Ok(None)

C2_Witness ==
    /\ Called("opt_checked_div")
    /\ call.self = None
    /\ call.arg = Some(0)
    /\ ret = Ok(None)

\* C3: opt_div_assign with an absent rhs, or an absent Option lhs, leaves
\* lhs as it was and returns normally.
C3_AssignNoOpOnAbsence ==
    (Called("opt_div_assign") /\ (SelfAbsent \/ ArgAbsent))
    => (lhs = call.self /\ ret = Unit)

C3_Witness ==
    /\ Called("opt_div_assign")
    /\ call.self = None
    /\ call.arg = Some(0)
    /\ lhs = None
    /\ ret = Unit

\* C4: opt_div of present operands, with a non-zero divisor and a
\* representable quotient, returns Some of the truncating quotient, in
\* all six call shapes.
C4_AgreesWithBase ==
    (/\ Called("opt_div")
     /\ BothPresent
     /\ B # 0
     /\ Representable(A, B))
    => ret = Some(ExactQuot(A, B))

C4_Witness ==
    /\ Called("opt_div")
    /\ call.lhs = "Option"
    /\ call.rhs = "RefOption"
    /\ call.self = Some(1)
    /\ call.arg = Some(-2)
    /\ ret = Some(0)

\* C5: opt_checked_div of present operands with a zero divisor is
\* Err(DivisionByZero), for every dividend and call shape.
C5_CheckedZeroDivisor ==
    (Called("opt_checked_div") /\ BothPresent /\ B = 0)
    => ret = Err("DivisionByZero")

C5_Witness ==
    /\ Called("opt_checked_div")
    /\ signed
    /\ call.self = Some(MIN)
    /\ call.arg = Some(0)
    /\ ret = Err("DivisionByZero")

\* C6: opt_checked_div of present operands with a non-zero divisor is
\* Err(Overflow) exactly when the exact truncated quotient is out of range
\* (only MIN / -1 of a signed type) and Ok(Some(quotient)) otherwise.
C6_CheckedOverflow ==
    (Called("opt_checked_div") /\ BothPresent /\ B # 0)
    => /\ (ret = Err("Overflow")) <=> ~Representable(A, B)
       /\ Representable(A, B) => ret = Ok(Some(ExactQuot(A, B)))
       /\ ~Representable(A, B) => (signed /\ A = MIN /\ B = -1)

C6_Witness ==
    /\ Called("opt_checked_div")
    /\ signed
    /\ BothPresent
    /\ A = MIN
    /\ B = -1
    /\ ret = Err("Overflow")

\* C7: opt_checked_div never panics and returns one of Ok(None),
\* Err(DivisionByZero), Err(Overflow), Ok(Some(value in range)).
C7_CheckedTotality ==
    Called("opt_checked_div")
    => /\ ret # Panic
       /\ \/ ret = Ok(None)
          \/ ret = Err("DivisionByZero")
          \/ ret = Err("Overflow")
          \/ \E v \in T : ret = Ok(Some(v))

C7_Witness ==
    /\ Called("opt_checked_div")
    /\ call.lhs = "T"
    /\ call.rhs = "RefOption"
    /\ call.arg = Some(0)
    /\ ret = Err("DivisionByZero")

\* C8: opt_div, opt_div_assign, opt_overflowing_div and opt_wrapping_div of
\* present operands with a zero divisor panic in every call shape; nothing
\* is returned and lhs is not assigned.
C8_ZeroDivisorIsFatal ==
    (/\ call.op \in {"opt_div", "opt_div_assign", "opt_overflowing_div",
                     "opt_wrapping_div"}
     /\ BothPresent
     /\ B = 0)
    => (ret = Panic /\ lhs = call.self)

C8_Witness ==
    /\ Called("opt_overflowing_div")
    /\ call.self = Some(MAX)
    /\ call.arg = Some(0)
    /\ ret = Panic

\* C9: for present operands with a non-zero divisor, the value returned by
\* opt_overflowing_div is the result of opt_wrapping_div on the same
\* operands, and its flag is set exactly when the exact quotient is out of
\* range.
C9_OverflowWrapConsistency ==
    (Called("opt_overflowing_div") /\ BothPresent /\ B # 0)
    => /\ ret[1] = "Some"
       /\ Some(ret[2][1]) = opt_wrapping_div_T_Rhs(A, B).val
       /\ ret[2][2] <=> ~Representable(A, B)

C9_Witness ==
    /\ Called("opt_overflowing_div")
    /\ signed
    /\ BothPresent
    /\ A = MIN
    /\ B = -1
    /\ ret = Some(<<MIN, TRUE>>)

\* The by-value implementation matching a by-reference call.
ByValueForm(op, ls, self, o) ==
    CASE op = "opt_div" /\ ls = "T" -> opt_div_T_Option(self[2], o)
      [] op = "opt_div" /\ ls = "Option" -> opt_div_Option_Option(self, o)
      [] op = "opt_checked_div" /\ ls = "T" ->
            opt_checked_div_T_Option(self[2], o)
      [] op = "opt_checked_div" /\ ls = "Option" ->
            opt_checked_div_Option_Option(self, o)
      [] op = "opt_overflowing_div" /\ ls = "T" ->
            opt_overflowing_div_T_Option(self[2], o)
      [] op = "opt_overflowing_div" /\ ls = "Option" ->
            opt_overflowing_div_Option_Option(self, o)
      [] op = "opt_wrapping_div" /\ ls = "T" ->
            opt_wrapping_div_T_Option(self[2], o)
      [] op = "opt_wrapping_div" /\ ls = "Option" ->
            opt_wrapping_div_Option_Option(self, o)

ByValueAssignForm(ls, self, o) ==
    IF ls = "T"
    THEN LET e == opt_div_assign_T_Option(self[2], o)
         IN  [e EXCEPT !.self = Val(e.self)]
    ELSE opt_div_assign_Option_Option(self, o)

\* C10: a call with rhs passed as &Option<R> has the outcome (result, final
\* lhs, error, panic) of the call with the same Option passed by value, and
\* the referenced Option keeps its value.
C10_RefValueEquivalence ==
    (call.op # "none" /\ call.rhs = "RefOption")
    => /\ opt_rhs = call.arg
       /\ IF Called("opt_div_assign")
          THEN LET e == ByValueAssignForm(call.lhs, call.self, call.arg)
               IN  /\ lhs = e.self
                   /\ ret = (IF e.panic THEN Panic ELSE Unit)
          ELSE LET e == ByValueForm(call.op, call.lhs, call.self, call.arg)
               IN  /\ lhs = call.self
                   /\ ret = e.val

C10_Witness ==
    /\ Called("opt_div_assign")
    /\ call.rhs = "RefOption"
    /\ call.lhs = "Option"
    /\ BothPresent
    /\ lhs # call.self
    /\ ret = Unit

\* The lhs binding holding payload q in the shape of the last call's lhs.
Holding(q) == IF call.lhs = "T" THEN Val(q) ELSE Some(q)

\* What opt_div returns for the operands of the last call, lhs shape kept.
PlainDivForm(ls, self, b) ==
    IF ls = "T" THEN opt_div_T_Rhs(self[2], b) ELSE opt_div_Option_Rhs(self, b)

\* C11 as stated: after opt_div_assign of present operands with a non-zero
\* divisor, in every rhs shape, lhs holds the quotient a / b.
C11_AssignHoldsQuotient ==
    (Called("opt_div_assign") /\ BothPresent /\ B # 0)
    => lhs = Holding(ExactQuot(A, B))

\* C11 amended: after opt_div_assign of present operands with a non-zero
\* divisor and a representable quotient, in every rhs shape, the call
\* returns and lhs holds the quotient a / b, the payload of what opt_div
\* returns for the same operands.
C11_AssignAgreesWithDiv ==
    (Called("opt_div_assign") /\ BothPresent /\ B # 0 /\ Representable(A, B))
    => /\ ret = Unit
       /\ lhs = Holding(ExactQuot(A, B))
       /\ Some(lhs[2]) = PlainDivForm(call.lhs, call.self, B).val

C11_Witness ==
    /\ Called("opt_div_assign")
    /\ call.lhs = "Option"
    /\ call.rhs = "Rhs"
    /\ call.self = Some(MAX)
    /\ call.arg = Val(MAX)
    /\ lhs = Some(1)

\* C12: MIN / -1 of a signed type with both operands present gives
\* Some((MIN, true)) from opt_overflowing_div and Some(MIN) from
\* opt_wrapping_div in every call shape; whenever opt_overflowing_div sets
\* the flag, the value returned is the left operand.
C12_OverflowReturnsDividend ==
    /\ (signed /\ BothPresent /\ A = MIN /\ B = -1)
       => /\ Called("opt_overflowing_div") => ret = Some(<<MIN, TRUE>>)
          /\ Called("opt_wrapping_div") => ret = Some(MIN)
    /\ (Called("opt_overflowing_div") /\ ret[1] = "Some" /\ ret[2][2])
       => ret[2][1] = A

C12_Witness ==
    /\ Called("opt_wrapping_div")
    /\ signed
    /\ call.lhs = "T"
    /\ call.rhs = "RefOption"
    /\ call.self = Val(MIN)
    /\ call.arg = Some(-1)
    /\ ret = Some(MIN)

\* C13: opt_div and opt_div_assign of present operands of a signed type
\* with an unrepresentable quotient (MIN / -1) panic; no wrapped value is
\* returned or stored in lhs.
C13_OverflowIsFatal ==
    (/\ call.op \in {"opt_div", "opt_div_assign"}
     /\ signed
     /\ BothPresent
     /\ B # 0
     /\ ~Representable(A, B))
    => (ret = Panic /\ lhs = call.self)

C13_Witness ==
    /\ Called("opt_div_assign")
    /\ signed
    /\ call.lhs = "Option"
    /\ call.rhs = "Option"
    /\ call.self = Some(MIN)
    /\ call.arg = Some(-1)
    /\ lhs = Some(MIN)
    /\ ret = Panic

\* C14: no call of opt_div_assign, in any sequence of calls, turns an
\* Option lhs from Some into None or from None into Some.
C14_PresencePreserved ==
    [][call'.op = "opt_div_assign" => lhs'[1] = lhs[1]]_vars

C14_Witness ==
    /\ Called("opt_div_assign")
    /\ call.lhs = "Option"
    /\ call.rhs = "Option"
    /\ is_some(call.self)
    /\ is_some(lhs)
    /\ lhs # call.self
    /\ ret = Unit

====
